---------------------------- MODULE Spec2Model ----------------------------
(***************************************************************************)
(* A model of the helper functions of the proteccion package:              *)
(*   models/model_utils.py          save_model, load_model,                *)
(*                                  evaluate_regression,                   *)
(*                                  evaluate_classification,               *)
(*                                  log_mlflow_experiment                  *)
(*   features/feature_engineering.py scale_features, encode_categorical,   *)
(*                                  create_interaction_features            *)
(*                                                                         *)
(* Each group of functions has its own specification over the shared       *)
(* variables; the variables a specification does not use stay at Idle.     *)
(***************************************************************************)
EXTENDS Integers, Sequences, FiniteSets, TLC

VARIABLES
    pc,        \* position of the sequential caller
    call,      \* the call being made / last made: operation and arguments
    result,    \* what the last call returned or raised
    fsDirs,    \* file system: the directories that exist (paths from the cwd)
    fsFiles,   \* file system: path -> bytes of the regular file, or Absent
    writers,   \* concurrent save_model calls: writer -> its position and data
    lastWrite, \* the writer whose write to the file completed most recently
    scalers,   \* heap of StandardScaler objects: id -> fitted statistics
    run,       \* experiment-tracking client: the state of the run of this call
    events     \* experiment-tracking client: the calls received, in order

vars == <<pc, call, result, fsDirs, fsFiles, writers, lastWrite, scalers, run, events>>

Idle == "idle"
\* the content of a path that holds no file (no byte is negative)
Absent == <<-1>>
None == "None"

(***************************************************************************)
(* Generic helpers.                                                        *)
(***************************************************************************)
Range(s) == {s[i] : i \in DOMAIN s}

SeqsUpTo(S, n) == UNION {[1..k -> S] : k \in 0..n}

NonEmptySeqsUpTo(S, n) == UNION {[1..k -> S] : k \in 1..n}

RECURSIVE SumSeq(_)
SumSeq(s) == IF s = <<>> THEN 0 ELSE s[1] + SumSeq(Tail(s))

Abs(x) == IF x < 0 THEN -x ELSE x

RECURSIVE Gcd(_, _)
Gcd(a, b) == IF b = 0 THEN a ELSE Gcd(b, a % b)

(***************************************************************************)
(* Persistence: save_model / load_model (models/model_utils.py 198-254).   *)
(*                                                                         *)
(* A model object is the sequence of its fitted coefficients.  A path is   *)
(* the sequence of its components; its parent is the path without the last *)
(* one, and the empty path is the working directory, which always exists.  *)
(* The ancestors of a path are directories or missing, and the path itself *)
(* is a regular file or missing.                                           *)
(***************************************************************************)
MaxModelLen == 2

Coefs == {0, 1}

Models == NonEmptySeqsUpTo(Coefs, MaxModelLen)

Engines == {"joblib", "pickle", "dill", "Pickle"}

FilePaths == {<<"m.pkl">>, <<"models", "v1", "m.pkl">>}

Parent(path) == SubSeq(path, 1, Len(path) - 1)

\* Path.mkdir(parents=True, exist_ok=True): the directory and all its ancestors
MkdirParents(dirs, d) == dirs \cup {SubSeq(d, 1, k) : k \in 1..Len(d)}

DirExists(dirs, d) == d = <<>> \/ d \in dirs

\* pickle stream opcodes: PROTO, STOP; joblib wraps the arrays of the estimator
PROTO == 128
STOP == 46
NDARRAY == 99

\* pickle.dump(model, f): protocol header, the length-prefixed payload, STOP
PickleDumps(model) == <<PROTO, Len(model)>> \o model \o <<STOP>>

\* joblib.dump(model, filepath): a pickle stream whose arrays are wrapped
JoblibDumps(model) == <<PROTO, NDARRAY, Len(model)>> \o model \o <<STOP>>

\* what a call returns, or the exception it raises with its message
NoValue == <<>>
Ok(v) == [status |-> "ok", value |-> v, msg |-> ""]
Raise(kind, msg) == [status |-> kind, value |-> NoValue, msg |-> msg]

\* pickle.load(f): reads one pickle stream from the start of the file, up to
\* its STOP; what follows the STOP is not read
PickleLoads(bytes) ==
    IF bytes = <<>> THEN Raise("EOFError", "Ran out of input")
    ELSE IF /\ Len(bytes) >= 3
            /\ bytes[1] = PROTO
            /\ bytes[2] \in 0..(Len(bytes) - 3)
            /\ bytes[bytes[2] + 3] = STOP
         THEN Ok(SubSeq(bytes, 3, bytes[2] + 2))
         ELSE Raise("UnpicklingError", "invalid load key")

\* joblib.load(filepath): reads its own streams and plain pickle streams
JoblibLoads(bytes) ==
    IF bytes = <<>> THEN Raise("EOFError", "Ran out of input")
    ELSE IF /\ Len(bytes) >= 4
            /\ bytes[1] = PROTO
            /\ bytes[2] = NDARRAY
            /\ bytes[3] \in 0..(Len(bytes) - 4)
            /\ bytes[bytes[3] + 4] = STOP
         THEN Ok(SubSeq(bytes, 4, bytes[3] + 3))
         ELSE PickleLoads(bytes)

UnsupportedEngine(engine) == Raise("ValueError", "Unsupported engine: " \o engine)

\* the parent directory after line 216
SaveDirs(dirs, path) == MkdirParents(dirs, Parent(path))

\* variant: every engine name but 'joblib' is taken for 'pickle'
SaveBytesUnchecked(old, model, engine) ==
    IF engine = "joblib" THEN JoblibDumps(model) ELSE PickleDumps(model)

\* variant: the pickle file is opened for appending
SaveBytesAppend(old, model, engine) ==
    IF engine = "joblib" THEN JoblibDumps(model)
    ELSE IF engine = "pickle"
         THEN (IF old = Absent THEN <<>> ELSE old) \o PickleDumps(model)
         ELSE old

\* the bytes of the file at path after lines 218-224: both engines open the
\* file for writing, which empties it; no other engine name touches it
SaveBytes(old, model, engine) ==
    IF engine = "joblib" THEN JoblibDumps(model)
    ELSE IF engine = "pickle" THEN PickleDumps(model)
    ELSE old

SaveResult(engine) ==
    IF engine \in {"joblib", "pickle"} THEN Ok(NoValue) ELSE UnsupportedEngine(engine)

\* lines 246-254
LoadResult(files, path, engine) ==
    IF engine = "joblib"
    THEN IF files[path] = Absent THEN Raise("FileNotFoundError", "No such file")
         ELSE JoblibLoads(files[path])
    ELSE IF engine = "pickle"
    THEN IF files[path] = Absent THEN Raise("FileNotFoundError", "No such file")
         ELSE PickleLoads(files[path])
    ELSE UnsupportedEngine(engine)

save_model(model, path, engine) ==
    /\ call' = [op |-> "save_model", model |-> model, path |-> path, engine |-> engine]
    /\ fsDirs' = SaveDirs(fsDirs, path)
    /\ fsFiles' = [fsFiles EXCEPT ![path] = SaveBytes(@, model, engine)]
    /\ result' = SaveResult(engine)
    /\ UNCHANGED <<pc, writers, lastWrite, scalers, run, events>>

load_model(path, engine) ==
    /\ call' = [op |-> "load_model", model |-> NoValue, path |-> path, engine |-> engine]
    /\ result' = LoadResult(fsFiles, path, engine)
    /\ UNCHANGED <<pc, fsDirs, fsFiles, writers, lastWrite, scalers, run, events>>

\* what a file may hold before the first call: nothing, an empty file, bytes
\* that are no pickle stream, or an earlier dump
InitContents == {Absent, <<>>, <<7, 7, 7, 7, 7, 7>>, PickleDumps(<<1, 1>>)}

PrefixClosed(dirs) == \A d \in dirs : Parent(d) = <<>> \/ Parent(d) \in dirs

InitPersist ==
    /\ pc = Idle
    /\ call = [op |-> Idle, model |-> NoValue, path |-> <<>>, engine |-> ""]
    /\ result = Ok(NoValue)
    /\ fsDirs \in {d \in SUBSET {<<"models">>, <<"models", "v1">>} : PrefixClosed(d)}
    /\ fsFiles \in {f \in [FilePaths -> InitContents] :
                      \A p \in FilePaths : f[p] # Absent => DirExists(fsDirs, Parent(p))}
    /\ writers = Idle
    /\ lastWrite = Idle
    /\ scalers = Idle
    /\ run = Idle
    /\ events = Idle

NextPersist ==
    \/ \E model \in Models, path \in FilePaths, engine \in Engines :
           save_model(model, path, engine)
    \/ \E path \in FilePaths, engine \in Engines : load_model(path, engine)

SpecPersist == InitPersist /\ [][NextPersist]_vars


\* C1: for every engine name other than 'joblib' and 'pickle', save_model and
\* load_model both raise ValueError("Unsupported engine: <name>") and leave
\* every file as it was; load_model leaves the directories as they were too,
\* and save_model adds at most the parent directory of filepath (with its
\* ancestors), which exists afterwards.
C1_UnsupportedEngine ==
    [][(call'.op \in {"save_model", "load_model"} /\ call'.engine \notin {"joblib", "pickle"})
        => /\ result'.status = "ValueError"
           /\ result'.msg = "Unsupported engine: " \o call'.engine
           /\ fsFiles' = fsFiles
           /\ call'.op = "load_model" => fsDirs' = fsDirs
           /\ call'.op = "save_model" =>
                /\ fsDirs \subseteq fsDirs'
                /\ \A d \in fsDirs' \ fsDirs :
                       \E k \in 1..(Len(call'.path) - 1) : d = SubSeq(call'.path, 1, k)
                /\ Len(call'.path) > 1 => SubSeq(call'.path, 1, Len(call'.path) - 1) \in fsDirs'
      ]_vars

\* save_model with an unknown engine has raised; the parent directory is there
\* and the file is not
C1_Witness ==
    /\ call.op = "save_model"
    /\ call.engine = "dill"
    /\ call.path = <<"models", "v1", "m.pkl">>
    /\ result.status = "ValueError"
    /\ <<"models", "v1">> \in fsDirs
    /\ fsFiles[call.path] = Absent

\* C2: with a supported engine save_model succeeds whatever the path held
\* and whether or not its parent directory existed, and a load_model of the
\* same path with the same engine right after it returns the model saved.
C2_RoundTrip ==
    [][/\ (call'.op = "save_model" /\ call'.engine \in {"joblib", "pickle"})
            => result'.status = "ok"
       /\ (/\ call.op = "save_model"
           /\ result.status = "ok"
           /\ call'.op = "load_model"
           /\ call'.path = call.path
           /\ call'.engine = call.engine)
            => (result'.status = "ok" /\ result'.value = call.model)
      ]_vars

\* a model has been loaded back from the nested path
C2_Witness ==
    /\ call.op = "load_model"
    /\ call.engine = "pickle"
    /\ call.path = <<"models", "v1", "m.pkl">>
    /\ result.status = "ok"
    /\ result.value = <<1, 0>>

(***************************************************************************)
(* Two concurrent save_model calls on one filepath.  Each call is the      *)
(* sequence of its system calls: mkdir (line 216), open for writing, which *)
(* creates or truncates the file (line 221, and inside joblib.dump, line   *)
(* 219), the writes of the buffered stream, each at the offset of the      *)
(* call's own file descriptor, and close.                                  *)
(***************************************************************************)
Writers == {"w1", "w2"}

SharedPath == <<"models", "v1", "m.pkl">>

\* bytes one write of the buffered stream carries
ChunkSize == 3

Dumps(model, engine) == IF engine = "joblib" THEN JoblibDumps(model) ELSE PickleDumps(model)

Min(a, b) == IF a < b THEN a ELSE b

\* write(fd, chunk) at offset off: a gap past the end of the file reads as zeros
WriteAt(content, off, chunk) ==
    [i \in 1..(IF off + Len(chunk) > Len(content) THEN off + Len(chunk) ELSE Len(content)) |->
        IF i > off /\ i <= off + Len(chunk) THEN chunk[i - off]
        ELSE IF i <= Len(content) THEN content[i]
        ELSE 0]

WMkdir(w) ==
    /\ writers[w].pc = "mkdir"
    /\ fsDirs' = SaveDirs(fsDirs, SharedPath)
    /\ writers' = [writers EXCEPT ![w].pc = "open"]
    /\ UNCHANGED <<pc, call, result, fsFiles, lastWrite, scalers, run, events>>

WOpen(w) ==
    /\ writers[w].pc = "open"
    /\ fsFiles' = [fsFiles EXCEPT ![SharedPath] = <<>>]
    /\ writers' = [writers EXCEPT ![w].pc = "write", ![w].off = 0]
    /\ UNCHANGED <<pc, call, result, fsDirs, lastWrite, scalers, run, events>>

WWrite(w) ==
    /\ writers[w].pc = "write"
    /\ LET data == Dumps(writers[w].model, writers[w].engine)
           off == writers[w].off
           end == Min(off + ChunkSize, Len(data))
       IN /\ fsFiles' = [fsFiles EXCEPT ![SharedPath] = WriteAt(@, off, SubSeq(data, off + 1, end))]
          /\ writers' = [writers EXCEPT ![w].off = end,
                                        ![w].pc = IF end = Len(data) THEN "close" ELSE "write"]
    /\ lastWrite' = w
    /\ UNCHANGED <<pc, call, result, fsDirs, scalers, run, events>>

WClose(w) ==
    /\ writers[w].pc = "close"
    /\ writers' = [writers EXCEPT ![w].pc = "done"]
    /\ UNCHANGED <<pc, call, result, fsDirs, fsFiles, lastWrite, scalers, run, events>>

InitConc ==
    /\ pc = Idle
    /\ call = Idle
    /\ result = Idle
    /\ fsDirs \in {d \in SUBSET {<<"models">>, <<"models", "v1">>} : PrefixClosed(d)}
    /\ fsFiles \in {f \in [FilePaths -> {Absent, <<7, 7, 7, 7, 7, 7>>}] :
                      \A p \in FilePaths : f[p] # Absent => DirExists(fsDirs, Parent(p))}
    /\ writers \in [Writers -> [pc : {"mkdir"}, model : Models,
                                engine : {"joblib", "pickle"}, off : {0}]]
    /\ lastWrite = Idle
    /\ scalers = Idle
    /\ run = Idle
    /\ events = Idle

NextConc == \E w \in Writers : WMkdir(w) \/ WOpen(w) \/ WWrite(w) \/ WClose(w)

SpecConc == InitConc /\ [][NextConc]_vars

\* C8: once both concurrent save_model calls have returned, the file holds
\* exactly the serialized model of the call whose write finished last.
C8_LastWriterWins ==
    (\A w \in Writers : writers[w].pc = "done")
        => fsFiles[SharedPath] = Dumps(writers[lastWrite].model, writers[lastWrite].engine)

(***************************************************************************)
(* Floating-point results are kept exact: a float is the reduced fraction  *)
(* num/den with den > 0; inf, -inf and nan are 1/0, -1/0 and 0/0; the      *)
(* square root of a fraction that is no square of a fraction keeps the     *)
(* radicand and is marked root.                                            *)
(***************************************************************************)
Sign(x) == IF x > 0 THEN 1 ELSE IF x < 0 THEN -1 ELSE 0

Frac(n, d) ==
    IF d = 0 THEN [num |-> Sign(n), den |-> 0]
    ELSE LET g == Gcd(Abs(n), Abs(d))
         IN [num |-> (Sign(d) * n) \div g, den |-> Abs(d) \div g]

NaN == [num |-> 0, den |-> 0]
Zero == [num |-> 0, den |-> 1]
One == [num |-> 1, den |-> 1]

FAdd(a, b) == Frac(a.num * b.den + b.num * a.den, a.den * b.den)
FSub(a, b) == Frac(a.num * b.den - b.num * a.den, a.den * b.den)
FMul(a, b) == Frac(a.num * b.num, a.den * b.den)

RECURSIVE FSum(_)
FSum(s) == IF s = <<>> THEN Zero ELSE FAdd(s[1], FSum(Tail(s)))

IsSquare(n) == \E r \in 0..n : r * r = n
IntSqrt(n) == CHOOSE r \in 0..n : r * r = n

\* numpy.sqrt of a non-negative float
Sqrt(f) ==
    IF IsSquare(f.num) /\ IsSquare(f.den) THEN Frac(IntSqrt(f.num), IntSqrt(f.den))
    ELSE [num |-> f.num, den |-> f.den, root |-> TRUE]

(***************************************************************************)
(* Evaluation: evaluate_regression and evaluate_classification             *)
(* (models/model_utils.py 64-117), with the metrics of sklearn.metrics     *)
(* they forward to.  y_true and y_pred have the same length.               *)
(***************************************************************************)
MaxSamples == 3

Targets == {1, 2, 3}

Labels == {0, 1, 2}

\* sklearn.metrics.mean_squared_error
mean_squared_error(yt, yp) ==
    Frac(SumSeq([i \in DOMAIN yt |-> (yt[i] - yp[i]) * (yt[i] - yp[i])]), Len(yt))

\* sklearn.metrics.mean_absolute_error
mean_absolute_error(yt, yp) ==
    Frac(SumSeq([i \in DOMAIN yt |-> Abs(yt[i] - yp[i])]), Len(yt))

\* sklearn.metrics.r2_score: 1 - SS_res / SS_tot; nan below two samples; with
\* a constant y_true, 1 for a perfect prediction and 0 otherwise
r2_score(yt, yp) ==
    LET n == Len(yt)
        ssRes == SumSeq([i \in DOMAIN yt |-> (yt[i] - yp[i]) * (yt[i] - yp[i])])
        \* n * SS_tot = n * sum(t^2) - sum(t)^2
        nSsTot == n * SumSeq([i \in DOMAIN yt |-> yt[i] * yt[i]]) - SumSeq(yt) * SumSeq(yt)
    IN IF n < 2 THEN NaN
       ELSE IF nSsTot = 0 THEN (IF ssRes = 0 THEN One ELSE Zero)
       ELSE FSub(One, Frac(n * ssRes, nSsTot))

\* variant: the record with the mean absolute error added
RegressionMetricsWithMae(yt, yp) ==
    [mse |-> mean_squared_error(yt, yp),
     mae |-> mean_absolute_error(yt, yp),
     rmse |-> Sqrt(mean_squared_error(yt, yp)),
     r2 |-> r2_score(yt, yp)]

\* lines 113-117
RegressionMetrics(yt, yp) ==
    [mse |-> mean_squared_error(yt, yp),
     rmse |-> Sqrt(mean_squared_error(yt, yp)),
     r2 |-> r2_score(yt, yp)]

evaluate_regression ==
    /\ pc = "call"
    /\ call.op = "evaluate_regression"
    /\ result' = Ok(RegressionMetrics(call.y_true, call.y_pred))
    /\ pc' = "done"
    /\ UNCHANGED <<call, fsDirs, fsFiles, writers, lastWrite, scalers, run, events>>

\* the labels that occur in y_true or y_pred
PresentLabels(yt, yp) == Range(yt) \cup Range(yp)

TruePos(yt, yp, l) == Cardinality({i \in DOMAIN yt : yt[i] = l /\ yp[i] = l})
PredCount(yp, l) == Cardinality({i \in DOMAIN yp : yp[i] = l})
Support(yt, l) == Cardinality({i \in DOMAIN yt : yt[i] = l})

\* a ratio whose denominator is zero is reported as 0 (zero_division="warn")
Ratio(n, d) == IF d = 0 THEN Zero ELSE Frac(n, d)

\* the per-label score: precision tp/(tp+fp), recall tp/(tp+fn), f1 2tp/(2tp+fp+fn)
LabelScore(metric, yt, yp, l) ==
    IF metric = "precision" THEN Ratio(TruePos(yt, yp, l), PredCount(yp, l))
    ELSE IF metric = "recall" THEN Ratio(TruePos(yt, yp, l), Support(yt, l))
    ELSE Ratio(2 * TruePos(yt, yp, l), PredCount(yp, l) + Support(yt, l))

\* a set of integers as the ascending sequence of its elements
RECURSIVE SortedSeq(_)
SortedSeq(S) ==
    IF S = {} THEN <<>>
    ELSE LET m == CHOOSE x \in S : \A y \in S : x <= y
         IN <<m>> \o SortedSeq(S \ {m})

\* sklearn.metrics.precision_score / recall_score / f1_score (pos_label = 1)
Score(metric, yt, yp, average) ==
    LET present == PresentLabels(yt, yp)
        labels == SortedSeq(present)
        sumOver(f(_)) == SumSeq([i \in DOMAIN labels |-> f(labels[i])])
        tp(l) == TruePos(yt, yp, l)
        pred(l) == PredCount(yp, l)
        supp(l) == Support(yt, l)
    IN IF average = "binary"
       THEN IF Cardinality(present) > 2
            THEN Raise("ValueError", "Target is multiclass but average='binary'")
            ELSE IF 1 \notin present /\ Cardinality(present) >= 2
            THEN Raise("ValueError", "pos_label=1 is not a valid label")
            ELSE Ok(LabelScore(metric, yt, yp, 1))
       ELSE IF average = "micro"
       THEN Ok(IF metric = "precision" THEN Ratio(sumOver(tp), sumOver(pred))
               ELSE IF metric = "recall" THEN Ratio(sumOver(tp), sumOver(supp))
               ELSE Ratio(2 * sumOver(tp), sumOver(pred) + sumOver(supp)))
       ELSE IF average = "macro"
       THEN Ok(FMul(FSum([i \in DOMAIN labels |-> LabelScore(metric, yt, yp, labels[i])]),
                    Frac(1, Len(labels))))
       ELSE IF average = "weighted"
       THEN Ok(FMul(FSum([i \in DOMAIN labels |->
                             FMul(Frac(supp(labels[i]), 1),
                                  LabelScore(metric, yt, yp, labels[i]))]),
                    Frac(1, Len(yt))))
       ELSE Raise("ValueError", "average has to be one of the supported strategies")

\* sklearn.metrics.accuracy_score
accuracy_score(yt, yp) == Frac(Cardinality({i \in DOMAIN yt : yt[i] = yp[i]}), Len(yt))

\* lines 86-91: the record, or the first error one of the metrics raises
ClassificationMetrics(yt, yp, average) ==
    LET p == Score("precision", yt, yp, average)
        r == Score("recall", yt, yp, average)
        f == Score("f1", yt, yp, average)
    IN IF p.status # "ok" THEN p
       ELSE IF r.status # "ok" THEN r
       ELSE IF f.status # "ok" THEN f
       ELSE Ok([accuracy |-> accuracy_score(yt, yp),
                precision |-> p.value,
                recall |-> r.value,
                f1 |-> f.value])

\* the call without an average argument
Omitted == "omitted"

\* line 67: the default of the average parameter
DefaultAverage == "binary"

evaluate_classification ==
    /\ pc = "call"
    /\ call.op = "evaluate_classification"
    /\ result' = ClassificationMetrics(call.y_true, call.y_pred,
                     IF call.average = Omitted THEN DefaultAverage ELSE call.average)
    /\ pc' = "done"
    /\ UNCHANGED <<call, fsDirs, fsFiles, writers, lastWrite, scalers, run, events>>

Averages == {"micro", "macro", "weighted", "binary"}

SamplePairs(S) ==
    UNION {[y_true : [1..n -> S], y_pred : [1..n -> S]] : n \in 1..MaxSamples}

InitEval ==
    /\ pc = "call"
    /\ call \in
         {[op |-> "evaluate_regression", y_true |-> a.y_true, y_pred |-> a.y_pred,
           average |-> Omitted] : a \in SamplePairs(Targets)}
         \cup
         {[op |-> "evaluate_classification", y_true |-> a.y_true, y_pred |-> a.y_pred,
           average |-> avg] : a \in SamplePairs(Labels), avg \in Averages \cup {Omitted}}
    /\ result = Ok(NoValue)
    /\ fsDirs = Idle
    /\ fsFiles = Idle
    /\ writers = Idle
    /\ lastWrite = Idle
    /\ scalers = Idle
    /\ run = Idle
    /\ events = Idle

NextEval == evaluate_regression \/ evaluate_classification

SpecEval == InitEval /\ [][NextEval]_vars

\* C3 as stated: the record has the four keys mse, mae, rmse and r2, and with
\* y_pred equal to y_true the errors are 0 and r2 is 1.
C3_Original ==
    (pc = "done" /\ call.op = "evaluate_regression")
        => /\ result.status = "ok"
           /\ DOMAIN result.value = {"mse", "mae", "rmse", "r2"}
           /\ call.y_pred = call.y_true
                => /\ result.value.mse = Zero
                   /\ result.value.mae = Zero
                   /\ result.value.rmse = Zero
                   /\ result.value.r2 = One

\* C3, amended: the record has exactly the three keys mse, rmse and r2; with
\* y_pred equal to y_true mse and rmse are 0, and r2 is 1 when there are
\* at least two samples.
C3_ThreeKeys ==
    (pc = "done" /\ call.op = "evaluate_regression")
        => /\ result.status = "ok"
           /\ DOMAIN result.value = {"mse", "rmse", "r2"}
           /\ call.y_pred = call.y_true
                => /\ result.value.mse = Zero
                   /\ result.value.rmse = Zero
                   /\ Len(call.y_true) >= 2 => result.value.r2 = One

\* evaluate_regression has returned for y_true = y_pred = [1, 2, 3]
C3_Witness ==
    /\ pc = "done"
    /\ call.op = "evaluate_regression"
    /\ call.y_true = <<1, 2, 3>>
    /\ call.y_pred = <<1, 2, 3>>
    /\ result.status = "ok"
    /\ result.value.r2 = One

\* C9: evaluate_classification returns exactly the keys accuracy, precision,
\* recall and f1, computed with the averaging strategy the caller gives, and
\* with 'weighted' when the caller gives none.
C9_DefaultWeighted ==
    (pc = "done" /\ call.op = "evaluate_classification")
        => /\ result.status = "ok" =>
                DOMAIN result.value = {"accuracy", "precision", "recall", "f1"}
           /\ LET want == ClassificationMetrics(call.y_true, call.y_pred,
                               IF call.average = Omitted THEN "weighted" ELSE call.average)
              IN /\ result.status = want.status
                 /\ result.status = "ok" => result.value = want.value

(***************************************************************************)
(* Experiment logging: log_mlflow_experiment (models/model_utils.py        *)
(* 182-195), one step per call to the tracking client.  Any call to the    *)
(* client may fail.  start_run fails when a run is already active.  The    *)
(* with statement of line 184 ends the run on leaving its block, as        *)
(* FINISHED on a normal exit and as FAILED when a call in the block raised.*)
(***************************************************************************)
ModelNames == {None, "", "rf"}

RunNames == {None, "nightly"}

ExperimentNames == {"churn", "pricing"}

\* lines 192-195: the artifact name
ArtifactName(model_name) == IF model_name \in {None, ""} THEN "model" ELSE model_name

\* variant: the block is not guarded, a failure leaves the function at once
AfterFailureNoExit == "raised"

\* where control goes when a call inside the with block raises: to __exit__
AfterFailureInBlock == "exit"

Event(kind, arg) == [kind |-> kind, arg |-> arg]

SetExperiment ==
    /\ pc = "set_experiment"
    /\ events' = Append(events, Event("set_experiment", call.experiment_name))
    /\ \/ pc' = "start_run" /\ UNCHANGED result
       \/ pc' = "raised" /\ result' = Raise("MlflowException", "set_experiment")
    /\ UNCHANGED <<call, fsDirs, fsFiles, writers, lastWrite, scalers, run>>

StartRun ==
    /\ pc = "start_run"
    /\ events' = Append(events, Event("start_run", call.run_name))
    /\ \/ /\ ~run.outer
          /\ run' = [run EXCEPT !.mine = "open"]
          /\ pc' = "log_params"
          /\ UNCHANGED result
       \/ /\ pc' = "raised"
          /\ result' = Raise("MlflowException", "start_run")
          /\ UNCHANGED run
    /\ UNCHANGED <<call, fsDirs, fsFiles, writers, lastWrite, scalers>>

\* one logging call inside the with block: it returns, or it raises
LogStep(at, kind, arg, next) ==
    /\ pc = at
    /\ events' = Append(events, Event(kind, arg))
    /\ \/ pc' = next /\ UNCHANGED result
       \/ pc' = AfterFailureInBlock /\ result' = Raise("MlflowException", kind)
    /\ UNCHANGED <<call, fsDirs, fsFiles, writers, lastWrite, scalers, run>>

LogParams == LogStep("log_params", "log_params", call.params, "log_metrics")

LogMetrics == LogStep("log_metrics", "log_metrics", call.metrics, "log_model")

LogModel == LogStep("log_model", "log_model", ArtifactName(call.model_name), "exit")

\* ActiveRun.__exit__: end_run with the status of the block, then return or re-raise
ExitRun ==
    /\ pc = "exit"
    /\ LET status == IF result.status = "ok" THEN "FINISHED" ELSE "FAILED"
       IN /\ events' = Append(events, Event("end_run", status))
          /\ run' = [run EXCEPT !.mine = status]
    /\ pc' = IF result.status = "ok" THEN "returned" ELSE "raised"
    /\ UNCHANGED <<call, result, fsDirs, fsFiles, writers, lastWrite, scalers>>

InitMlflow ==
    /\ pc = "set_experiment"
    /\ call \in [op : {"log_mlflow_experiment"},
                 params : {"params"}, metrics : {"metrics"},
                 experiment_name : ExperimentNames,
                 run_name : RunNames,
                 model_name : ModelNames]
    /\ result = Ok(NoValue)
    /\ run \in [outer : BOOLEAN, mine : {"none"}]
    /\ events = <<>>
    /\ fsDirs = Idle
    /\ fsFiles = Idle
    /\ writers = Idle
    /\ lastWrite = Idle
    /\ scalers = Idle

NextMlflow == SetExperiment \/ StartRun \/ LogParams \/ LogMetrics \/ LogModel \/ ExitRun

SpecMlflow == InitMlflow /\ [][NextMlflow]_vars

EventKinds == [i \in DOMAIN events |-> events[i].kind]

IsPrefix(a, b) == Len(a) <= Len(b) /\ a = SubSeq(b, 1, Len(a))

InBlockOrder == <<"set_experiment", "start_run", "log_params", "log_metrics", "log_model">>

\* C7: the client is called in the order set experiment, open run, log
\* parameters, log metrics, log model, close run (a failing call cuts the
\* order short and, once the run is open, is followed by the close alone);
\* the model is logged under model_name, or "model" when that is absent or
\* empty; every logging call is made while the run is open; and when the
\* function has returned or raised, no run it opened is still open.
C7_ScopedRun ==
    /\ \/ IsPrefix(EventKinds, InBlockOrder)
       \/ /\ Len(events) >= 3
          /\ IsPrefix(SubSeq(EventKinds, 1, Len(events) - 1), InBlockOrder)
          /\ EventKinds[Len(events)] = "end_run"
          /\ events[Len(events)].arg = (IF result.status = "ok" THEN "FINISHED" ELSE "FAILED")
          /\ result.status = "ok" => Len(events) = 6
    /\ \A i \in DOMAIN events :
          events[i].kind = "log_model" =>
              events[i].arg = (IF call.model_name = None \/ call.model_name = ""
                               THEN "model" ELSE call.model_name)
    /\ pc \in {"log_params", "log_metrics", "log_model", "exit"} => run.mine = "open"
    /\ \A i \in DOMAIN events :
          events[i].kind \in {"log_params", "log_metrics", "log_model"} =>
              /\ i > 2 /\ events[2].kind = "start_run"
              /\ \A j \in 1..i : events[j].kind # "end_run"
    /\ pc \in {"returned", "raised"} =>
          /\ run.mine # "open"
          /\ run.mine # "none" => events[Len(events)].kind = "end_run"
    /\ pc = "returned" => (run.mine = "FINISHED" /\ Len(events) = 6)

\* a logging call failed inside the block and the run was closed as FAILED
\* before the failure propagated
C7_Witness ==
    /\ pc = "raised"
    /\ run.mine = "FAILED"
    /\ EventKinds = <<"set_experiment", "start_run", "log_params", "log_metrics", "end_run">>

(***************************************************************************)
(* Data frames.  A frame is its row index (labels, in row order), its      *)
(* column names (in column order, without repetition) and, per column, the *)
(* values in row order.                                                    *)
(***************************************************************************)
MaxRows == 2

Frame(index, columns, data) == [index |-> index, columns |-> columns, data |-> data]

HasColumn(df, c) == c \in Range(df.columns)

\* df[name] = values: replaces the column of that name in place, or appends it
SetColumn(df, name, values) ==
    IF HasColumn(df, name)
    THEN [df EXCEPT !.data = [c \in DOMAIN df.data |-> IF c = name THEN values ELSE df.data[c]]]
    ELSE [df EXCEPT !.columns = Append(df.columns, name),
                    !.data = [c \in DOMAIN df.data \cup {name} |->
                                 IF c = name THEN values ELSE df.data[c]]]

(***************************************************************************)
(* create_interaction_features (features/feature_engineering.py 140-153).  *)
(* Cells are integers; a ratio is a float.                                 *)
(***************************************************************************)
MaxCols == 3

CellValues == {0, 1}

Operations == {"multiply", "add", "subtract", "divide", "power"}

\* variant: the inner loop runs over columns[i:]
RECURSIVE PairsFromSelf(_, _, _)
PairsFromSelf(n, i, j) ==
    IF i > n THEN <<>>
    ELSE IF j > n THEN PairsFromSelf(n, i + 1, i + 1)
    ELSE <<(<<i, j>>)>> \o PairsFromSelf(n, i, j + 1)

PairsIncludingSelf(columns) == PairsFromSelf(Len(columns), 1, 1)

\* the list positions the two loops of lines 142-143 visit, in order:
\* i over the list, j over columns[i + 1:]
RECURSIVE PairsFrom(_, _, _)
PairsFrom(n, i, j) ==
    IF i > n THEN <<>>
    ELSE IF j > n THEN PairsFrom(n, i + 1, i + 2)
    ELSE <<(<<i, j>>)>> \o PairsFrom(n, i, j + 1)

Pairs(columns) == PairsFrom(Len(columns), 1, 2)

\* variant: the chain ends in an else that multiplies
BranchElseMultiply(operation) ==
    IF operation \in {"add", "subtract", "divide"} THEN operation ELSE "multiply"

\* lines 144-151: the branch an operation string selects, "none" when no
\* comparison matches
Branch(operation) ==
    IF operation \in {"multiply", "add", "subtract", "divide"} THEN operation ELSE "none"

Suffix(branch) ==
    IF branch = "multiply" THEN "_product"
    ELSE IF branch = "add" THEN "_sum"
    ELSE IF branch = "subtract" THEN "_diff"
    ELSE "_ratio"

\* the f-string of lines 145-151
InteractionName(col1, col2, branch) == col1 \o "_" \o col2 \o Suffix(branch)

\* df[col1] <op> df[col2], row by row; x / 0 is inf, -inf or nan
Combine(branch, xs, ys) ==
    [r \in DOMAIN xs |->
        IF branch = "multiply" THEN xs[r] * ys[r]
        ELSE IF branch = "add" THEN xs[r] + ys[r]
        ELSE IF branch = "subtract" THEN xs[r] - ys[r]
        ELSE Frac(xs[r], ys[r])]

\* the body of the inner loop for one pair: acc is the result so far
InteractPair(acc, df, col1, col2, operation) ==
    IF acc.status # "ok" \/ Branch(operation) = "none" THEN acc
    ELSE IF ~HasColumn(df, col1) THEN Raise("KeyError", col1)
    ELSE IF ~HasColumn(df, col2) THEN Raise("KeyError", col2)
    ELSE Ok(SetColumn(acc.value,
                      InteractionName(col1, col2, Branch(operation)),
                      Combine(Branch(operation), df.data[col1], df.data[col2])))

RECURSIVE InteractLoop(_, _, _, _, _)
InteractLoop(acc, df, columns, operation, pairs) ==
    IF pairs = <<>> THEN acc
    ELSE InteractLoop(InteractPair(acc, df, columns[pairs[1][1]], columns[pairs[1][2]], operation),
                      df, columns, operation, Tail(pairs))

\* lines 140-153: the copy, the loops and the return
InteractionFeatures(df, columns, operation) ==
    InteractLoop(Ok(df), df, columns, operation, Pairs(columns))

create_interaction_features ==
    /\ pc = "call"
    /\ call.op = "create_interaction_features"
    /\ result' = InteractionFeatures(call.df, call.columns, call.operation)
    /\ pc' = "done"
    /\ UNCHANGED <<call, fsDirs, fsFiles, writers, lastWrite, scalers, run, events>>

\* the frames of the calls: columns a and b and, in some, a column that
\* already has the name of the product of a and b
InteractFrames ==
    UNION {
      {Frame([r \in 1..n |-> r - 1], <<"a", "b">>, [c \in {"a", "b"} |-> IF c = "a" THEN a ELSE b])
         : a \in [1..n -> CellValues], b \in [1..n -> CellValues]}
      \cup
      {Frame([r \in 1..n |-> r - 1], <<"a", "b", "a_b_product">>,
             [c \in {"a", "b", "a_b_product"} |->
                 IF c = "a" THEN a ELSE IF c = "b" THEN b ELSE [r \in 1..n |-> 7]])
         : a \in [1..n -> CellValues], b \in [1..n -> CellValues]}
      : n \in 1..MaxRows}

InitInteract ==
    /\ pc = "call"
    /\ call \in [op : {"create_interaction_features"},
                 df : InteractFrames,
                 columns : SeqsUpTo({"a", "b", "z"}, MaxCols),
                 operation : Operations]
    /\ result = Ok(NoValue)
    /\ fsDirs = Idle
    /\ fsFiles = Idle
    /\ writers = Idle
    /\ lastWrite = Idle
    /\ scalers = Idle
    /\ run = Idle
    /\ events = Idle

NextInteract == create_interaction_features

SpecInteract == InitInteract /\ [][NextInteract]_vars

KnownOperations == {"multiply", "add", "subtract", "divide"}

\* the name the claim gives the column of the pair of list positions i < j
C4_Name(i, j) ==
    call.columns[i] \o "_" \o call.columns[j] \o
        (CASE call.operation = "multiply" -> "_product"
           [] call.operation = "add" -> "_sum"
           [] call.operation = "subtract" -> "_diff"
           [] call.operation = "divide" -> "_ratio")

C4_PositionPairs == {p \in (1..Len(call.columns)) \X (1..Len(call.columns)) : p[1] < p[2]}

\* the elementwise result of the operation on the columns at positions i and j
C4_Holds(col, i, j) ==
    LET xs == call.df.data[call.columns[i]]
        ys == call.df.data[call.columns[j]]
    IN /\ DOMAIN col = DOMAIN xs
       /\ \A r \in DOMAIN xs :
            CASE call.operation = "multiply" -> col[r] = xs[r] * ys[r]
              [] call.operation = "add" -> col[r] = xs[r] + ys[r]
              [] call.operation = "subtract" -> col[r] = xs[r] - ys[r]
              [] call.operation = "divide" ->
                   IF ys[r] = 0
                   THEN col[r].den = 0 /\ col[r].num = (IF xs[r] > 0 THEN 1 ELSE IF xs[r] < 0 THEN -1 ELSE 0)
                   ELSE col[r].den > 0 /\ col[r].num * ys[r] = xs[r] * col[r].den

\* one new column per pair of positions, n*(n-1)/2 in all, each named and
\* filled as the claim says, after the columns of the input, which keep
\* their values
C4_Conclusion ==
    LET n == Len(call.columns)
        out == result.value
    IN /\ result.status = "ok"
       /\ Len(out.columns) = Len(call.df.columns) + (n * (n - 1)) \div 2
       /\ SubSeq(out.columns, 1, Len(call.df.columns)) = call.df.columns
       /\ out.index = call.df.index
       /\ \A c \in Range(call.df.columns) : out.data[c] = call.df.data[c]
       /\ \A p \in C4_PositionPairs :
            /\ HasColumn(out, C4_Name(p[1], p[2]))
            /\ ~HasColumn(call.df, C4_Name(p[1], p[2]))
            /\ C4_Holds(out.data[C4_Name(p[1], p[2])], p[1], p[2])

C4_Case ==
    /\ pc = "done"
    /\ call.op = "create_interaction_features"
    /\ call.operation \in KnownOperations
    /\ Range(call.columns) \subseteq Range(call.df.columns)

\* C4 as stated: for every list of columns of the frame and each of the four
\* operations, one new column per pair of list positions.
C4_Original == C4_Case => C4_Conclusion

\* C4, amended: the same, for the lists whose pairs get names that differ
\* from one another and from the names of the columns the frame already has.
C4_FreshNames ==
    (/\ C4_Case
     /\ \A p, q \in C4_PositionPairs : p # q => C4_Name(p[1], p[2]) # C4_Name(q[1], q[2])
     /\ \A p \in C4_PositionPairs : ~HasColumn(call.df, C4_Name(p[1], p[2])))
        => C4_Conclusion

\* three pairs of a list of length three have their three ratio columns,
\* one of them with a division by zero
C4_Witness ==
    /\ pc = "done"
    /\ call.op = "create_interaction_features"
    /\ call.operation = "divide"
    /\ call.columns = <<"a", "b", "a">>
    /\ result.status = "ok"
    /\ Len(result.value.columns) = Len(call.df.columns) + 3
    /\ \E r \in DOMAIN call.df.index : call.df.data["b"][r] = 0 /\ call.df.data["a"][r] = 1

\* C10: for an operation string outside the four known ones the call raises
\* nothing and returns a frame equal to its input, whatever the list of
\* columns holds, names the frame does not have included.
C10_UnknownOperation ==
    (/\ pc = "done"
     /\ call.op = "create_interaction_features"
     /\ call.operation \notin KnownOperations)
        => (result.status = "ok" /\ result.value = call.df)

\* an unknown operation over a list with a name the frame does not have
C10_Witness ==
    /\ pc = "done"
    /\ call.op = "create_interaction_features"
    /\ call.operation = "power"
    /\ call.columns = <<"a", "z", "b">>
    /\ result.status = "ok"
    /\ result.value = call.df

(***************************************************************************)
(* scale_features (features/feature_engineering.py 35-41).  StandardScaler *)
(* objects live in a heap, so that the scaler a call returns can be told   *)
(* from another scaler with the same statistics: object 1 is the caller's  *)
(* (fitted earlier, or constructed and never fitted), object 2 is the one  *)
(* the call constructs when it is given none.  A fitted scaler holds the   *)
(* names of the columns it was fitted on and, per column, the count, sum   *)
(* and sum of squares its mean_ and scale_ come from; fits counts its fit  *)
(* calls.                                                                  *)
(***************************************************************************)
CallerScaler == "scaler_1"
NewScaler == "scaler_2"

Unallocated == [fitted |-> FALSE, names |-> <<>>, stats |-> <<>>, fits |-> -1]
Unfitted == [fitted |-> FALSE, names |-> <<>>, stats |-> <<>>, fits |-> 0]

ColumnStats(values) ==
    [n |-> Len(values),
     sum |-> SumSeq(values),
     sumsq |-> SumSeq([r \in DOMAIN values |-> values[r] * values[r]])]

\* StandardScaler.fit(df[columns]) on the scaler object sc
Fit(sc, df, columns) ==
    [fitted |-> TRUE,
     names |-> columns,
     stats |-> [k \in DOMAIN columns |-> ColumnStats(df.data[columns[k]])],
     fits |-> sc.fits + 1]

\* (x - mean_) / scale_, where scale_ is 1 for a column of zero variance
Standardize(x, st) ==
    LET mean == Frac(st.sum, st.n)
        var == FSub(Frac(st.sumsq, st.n), FMul(mean, mean))
        dev == FSub(Frac(x, 1), mean)
    IN IF var = Zero THEN [sign |-> Sign(dev.num), mag |-> Frac(Abs(dev.num), dev.den)]
       ELSE [sign |-> Sign(dev.num),
             mag |-> Sqrt(Frac(dev.num * dev.num * var.den, dev.den * dev.den * var.num))]

\* StandardScaler.transform(df[columns]): the scaled columns, by list position
Transform(sc, df, columns) ==
    IF ~sc.fitted THEN Raise("NotFittedError", "StandardScaler")
    ELSE IF sc.names # columns THEN Raise("ValueError", "feature names")
    ELSE Ok([k \in DOMAIN columns |->
                [r \in DOMAIN df.index |-> Standardize(df.data[columns[k]][r], sc.stats[k])]])

\* df_scaled[columns] = ...: the listed columns replaced, the others kept
AssignColumns(df, columns, scaled) ==
    [df EXCEPT !.data = [c \in DOMAIN df.data |->
        IF c \in Range(columns)
        THEN scaled[CHOOSE k \in DOMAIN columns : columns[k] = c]
        ELSE df.data[c]]]

\* variant: the scaler is fitted on every call
FitsAlways(scaler) == TRUE

\* line 35: whether the call constructs and fits a scaler
FitsScaler(scaler) == scaler = None

\* the scaler object lines 35-37 leave in the local variable scaler
ScalerUsed(scaler) == IF scaler = None THEN NewScaler ELSE scaler

\* the heap after lines 35-37
HeapAfterFit(heap, df, columns, scaler) ==
    IF ~FitsScaler(scaler) THEN heap
    ELSE IF Range(columns) \subseteq Range(df.columns)
    THEN [heap EXCEPT ![ScalerUsed(scaler)] = Fit(IF scaler = None THEN Unfitted ELSE @, df, columns)]
    ELSE [heap EXCEPT ![ScalerUsed(scaler)] = IF scaler = None THEN Unfitted ELSE @]

\* lines 35-41: what the call returns or raises, given the heap after the fit
ScaleResult(heap, df, columns, scaler) ==
    IF ~(Range(columns) \subseteq Range(df.columns)) THEN Raise("KeyError", "not in index")
    ELSE LET t == Transform(heap[ScalerUsed(scaler)], df, columns)
         IN IF t.status # "ok" THEN t
            ELSE Ok([df |-> AssignColumns(df, columns, t.value), scaler |-> ScalerUsed(scaler)])

scale_features ==
    /\ pc = "call"
    /\ call.op = "scale_features"
    /\ scalers' = HeapAfterFit(scalers, call.df, call.columns, call.scaler)
    /\ result' = ScaleResult(scalers', call.df, call.columns, call.scaler)
    /\ pc' = "done"
    /\ UNCHANGED <<call, fsDirs, fsFiles, writers, lastWrite, run, events>>

ScaleFrames ==
    UNION {{Frame([r \in 1..n |-> r - 1], <<"x", "y">>,
                  [c \in {"x", "y"} |-> IF c = "x" THEN x ELSE y])
              : x \in [1..n -> CellValues], y \in [1..n -> CellValues]}
           : n \in 1..MaxRows}

ScaleLists == {<<"x">>, <<"y">>, <<"x", "y">>, <<"x", "z">>}

\* the caller's scaler: never fitted, or fitted once on columns of a frame
CallerScalers ==
    {Unfitted} \cup {Fit(Unfitted, df, cols) : df \in ScaleFrames, cols \in ScaleLists \ {<<"x", "z">>}}

InitScale ==
    /\ pc = "call"
    /\ call \in [op : {"scale_features"},
                 df : ScaleFrames,
                 columns : ScaleLists,
                 scaler : {None, CallerScaler}]
    /\ result = Ok(NoValue)
    /\ scalers \in {[i \in {CallerScaler, NewScaler} |-> IF i = CallerScaler THEN sc ELSE Unallocated]
                      : sc \in CallerScalers}
    /\ fsDirs = Idle
    /\ fsFiles = Idle
    /\ writers = Idle
    /\ lastWrite = Idle
    /\ run = Idle
    /\ events = Idle

NextScale == scale_features

SpecScale == InitScale /\ [][NextScale]_vars

\* the value the claim expects for x under the statistics st: its deviation
\* from the mean, over the standard deviation when that is not zero
C5_Scaled(z, x, st) ==
    LET devNum == x * st.n - st.sum             \* n * (x - mean)
        varNum == st.n * st.sumsq - st.sum * st.sum   \* n^2 * variance
    IN /\ z.sign = (IF devNum > 0 THEN 1 ELSE IF devNum < 0 THEN -1 ELSE 0)
       /\ IF varNum = 0
          THEN z.mag.num * st.n = Abs(devNum) * z.mag.den
          ELSE \/ /\ "root" \in DOMAIN z.mag
                  /\ z.mag.num * varNum = devNum * devNum * z.mag.den
               \/ /\ "root" \notin DOMAIN z.mag
                  /\ z.mag.num * z.mag.num * varNum = devNum * devNum * z.mag.den * z.mag.den

\* C5: a call given a fitted scaler fits nothing: every scaler object is
\* after the call as it was before, the values returned are the listed
\* columns transformed with the statistics that scaler already held, and
\* the scaler returned is the one supplied.  A call fits a scaler only when
\* it is given none: then the new scaler is fitted once, on the listed
\* columns of the input frame, and the caller's scaler is left alone.
C5_NoRefit ==
    [][(pc = "call" /\ pc' = "done" /\ call.op = "scale_features")
        => /\ (call.scaler # None /\ scalers[CallerScaler].fitted)
                => /\ scalers' = scalers
                   /\ result'.status = "ok"
                        => /\ result'.value.scaler = call.scaler
                           /\ \A k \in DOMAIN call.columns : \A r \in DOMAIN call.df.index :
                                C5_Scaled(result'.value.df.data[call.columns[k]][r],
                                          call.df.data[call.columns[k]][r],
                                          scalers[CallerScaler].stats[k])
           /\ call.scaler # None => scalers' = scalers
           /\ call.scaler = None
                => /\ scalers'[CallerScaler] = scalers[CallerScaler]
                   /\ result'.status = "ok"
                        => /\ result'.value.scaler = NewScaler
                           /\ scalers'[NewScaler].fits = 1
                           /\ scalers'[NewScaler].names = call.columns
                           /\ \A k \in DOMAIN call.columns :
                                LET vals == call.df.data[call.columns[k]]
                                    st == scalers'[NewScaler].stats[k]
                                IN /\ st.n = Len(vals)
                                   /\ st.sum = SumSeq(vals)
                                   /\ st.sumsq = SumSeq([r \in DOMAIN vals |-> vals[r] * vals[r]])
      ]_vars

\* a scaler fitted on other data was supplied and used: it is returned with
\* its one fit, and the scaled column is not the one a fresh fit would give
C5_Witness ==
    /\ pc = "done"
    /\ call.op = "scale_features"
    /\ call.scaler = CallerScaler
    /\ call.columns = <<"x">>
    /\ result.status = "ok"
    /\ result.value.scaler = CallerScaler
    /\ scalers[CallerScaler].fits = 1
    /\ scalers[CallerScaler].stats[1] # ColumnStats(call.df.data["x"])
    /\ scalers[NewScaler] = Unallocated

(***************************************************************************)
(* encode_categorical (features/feature_engineering.py 71-83).  A fitted   *)
(* OneHotEncoder holds the names of the columns it was fitted on, per      *)
(* column its categories in sorted order, and per column the position of   *)
(* the category it drops (0: none).                                        *)
(***************************************************************************)
\* the category values, in their sort order
CategoryOrder == <<"x", "y", "z">>

Categories == Range(CategoryOrder)

\* the sorted unique values of a column
UniqueSorted(values) == SelectSeq(CategoryOrder, LAMBDA c : c \in Range(values))

\* OneHotEncoder(drop=drop).fit(df[columns])
DropPosition(drop, cats) ==
    IF drop = "first" THEN 1
    ELSE IF drop = "if_binary" /\ Len(cats) = 2 THEN 1
    ELSE 0

FitEncoder(df, columns, drop) ==
    [names |-> columns,
     categories |-> [k \in DOMAIN columns |-> UniqueSorted(df.data[columns[k]])],
     dropped |-> [k \in DOMAIN columns |->
                     DropPosition(drop, UniqueSorted(df.data[columns[k]]))]]

\* the categories of column k that get an indicator, in order
Retained(enc, k) ==
    LET cats == enc.categories[k]
    IN SelectSeq(cats, LAMBDA c : enc.dropped[k] = 0 \/ c # cats[enc.dropped[k]])

RECURSIVE Flatten(_)
Flatten(ss) == IF ss = <<>> THEN <<>> ELSE ss[1] \o Flatten(Tail(ss))

\* the indicators of the encoder, column by column: <<column position, category>>
Indicators(enc) ==
    Flatten([k \in DOMAIN enc.names |->
                [m \in DOMAIN Retained(enc, k) |-> <<k, Retained(enc, k)[m]>>]])

\* encoder.get_feature_names_out(columns)
FeatureNames(enc, columns) ==
    [m \in DOMAIN Indicators(enc) |->
        columns[Indicators(enc)[m][1]] \o "_" \o Indicators(enc)[m][2]]

\* encoder.transform(df[columns]) as the frame of lines 75-79
EncodedFrame(enc, df, columns) ==
    IF enc.names # columns THEN Raise("ValueError", "feature names")
    ELSE IF \E k \in DOMAIN columns : \E r \in DOMAIN df.index :
                df.data[columns[k]][r] \notin Range(enc.categories[k])
    THEN Raise("ValueError", "Found unknown categories")
    ELSE LET ind == Indicators(enc)
             names == FeatureNames(enc, columns)
         IN Ok(Frame(df.index, names,
                     [c \in Range(names) |->
                        LET m == CHOOSE m \in DOMAIN names : names[m] = c
                        IN [r \in DOMAIN df.index |->
                               IF df.data[columns[ind[m][1]]][r] = ind[m][2] THEN 1 ELSE 0]]))

\* df.drop(columns=columns)
DropColumns(df, columns) ==
    Frame(df.index,
          SelectSeq(df.columns, LAMBDA c : c \notin Range(columns)),
          [c \in Range(df.columns) \ Range(columns) |-> df.data[c]])

\* the rows of left.join(right): each row of left, in order, with each row
\* of right that has its index label, in order
RECURSIVE MatchRows(_, _, _, _)
MatchRows(left, right, i, j) ==
    IF i > Len(left.index) THEN <<>>
    ELSE IF j > Len(right.index) THEN MatchRows(left, right, i + 1, 1)
    ELSE (IF right.index[j] = left.index[i] THEN <<(<<i, j>>)>> ELSE <<>>)
         \o MatchRows(left, right, i, j + 1)

\* the pairing of rows line 82 gets
JoinRows(left, right) == MatchRows(left, right, 1, 1)

\* left.join(right): a left join on the index
Join(left, right) ==
    IF Range(left.columns) \cap Range(right.columns) # {}
    THEN Raise("ValueError", "columns overlap but no suffix specified")
    ELSE LET rows == JoinRows(left, right)
         IN Ok(Frame([m \in DOMAIN rows |-> left.index[rows[m][1]]],
                     left.columns \o right.columns,
                     [c \in Range(left.columns) \cup Range(right.columns) |->
                        [m \in DOMAIN rows |->
                            IF c \in Range(left.columns) THEN left.data[c][rows[m][1]]
                            ELSE right.data[c][rows[m][2]]]]))

\* lines 71-83
EncodeResult(df, columns, encoder, drop) ==
    IF ~(Range(columns) \subseteq Range(df.columns)) THEN Raise("KeyError", "not in index")
    ELSE LET enc == IF encoder = <<>> THEN FitEncoder(df, columns, drop) ELSE encoder[1]
             encoded == EncodedFrame(enc, df, columns)
         IN IF encoded.status # "ok" THEN encoded
            ELSE LET joined == Join(DropColumns(df, columns), encoded.value)
                 IN IF joined.status # "ok" THEN joined
                    ELSE Ok([df |-> joined.value, encoder |-> enc])

encode_categorical ==
    /\ pc = "call"
    /\ call.op = "encode_categorical"
    /\ result' = EncodeResult(call.df, call.columns, call.encoder, call.drop)
    /\ pc' = "done"
    /\ UNCHANGED <<call, fsDirs, fsFiles, writers, lastWrite, scalers, run, events>>

\* the index labels of the rows: any labels, repeated ones included
IndexLabels == {0, 1}

\* frames with the categorical columns c and d and a numeric column n that
\* holds the row number
EncodeFrames ==
    UNION {{Frame(idx, <<"c", "d", "n">>,
                  [col \in {"c", "d", "n"} |->
                      IF col = "c" THEN c ELSE IF col = "d" THEN d ELSE [r \in 1..n |-> r]])
              : idx \in [1..n -> IndexLabels], c \in [1..n -> Categories],
                d \in [1..n -> Categories]}
           : n \in 1..MaxRows}

EncodeLists == {<<"c">>, <<"d">>, <<"c", "d">>, <<"d", "c">>}

\* an encoder fitted earlier on a column c that held x and y; <<>> is None
GivenEncoders ==
    {<<>>,
     <<[names |-> <<"c">>, categories |-> <<(<<"x", "y">>)>>, dropped |-> <<1>>]>>}

InitEncode ==
    /\ pc = "call"
    /\ call \in [op : {"encode_categorical"},
                 df : EncodeFrames,
                 columns : EncodeLists,
                 encoder : GivenEncoders,
                 drop : {"first", "if_binary"}]
    /\ result = Ok(NoValue)
    /\ fsDirs = Idle
    /\ fsFiles = Idle
    /\ writers = Idle
    /\ lastWrite = Idle
    /\ scalers = Idle
    /\ run = Idle
    /\ events = Idle

NextEncode == encode_categorical

SpecEncode == InitEncode /\ [][NextEncode]_vars

\* the categories a listed column holds, and the first of them in sort order
C6_Cats(col) == {v \in Categories : \E r \in DOMAIN call.df.index : call.df.data[col][r] = v}

C6_First(col) ==
    CHOOSE v \in C6_Cats(col) :
        \A w \in C6_Cats(col) :
            \E a, b \in DOMAIN CategoryOrder :
                a <= b /\ CategoryOrder[a] = v /\ CategoryOrder[b] = w

\* C6: called without an encoder and with the default drop, the call returns
\* a frame that has, per listed column with k categories, exactly k-1
\* indicator columns (all categories but the first), none of the listed
\* columns and every other column; its rows are the rows of the input, and
\* in each row the indicators of a listed column sum to 0 where the row has
\* the dropped category and to 1 elsewhere.
C6_DropFirst ==
    (/\ pc = "done"
     /\ call.op = "encode_categorical"
     /\ call.encoder = <<>>
     /\ call.drop = "first")
        => /\ result.status = "ok"
           /\ LET out == result.value.df
              IN /\ \A col \in Range(call.columns) :
                      /\ ~HasColumn(out, col)
                      /\ Cardinality({v \in Categories : HasColumn(out, col \o "_" \o v)
                                                          /\ ~HasColumn(call.df, col \o "_" \o v)})
                            = Cardinality(C6_Cats(col)) - 1
                      /\ \A v \in C6_Cats(col) \ {C6_First(col)} : HasColumn(out, col \o "_" \o v)
                 /\ \A col \in Range(call.df.columns) \ Range(call.columns) :
                      HasColumn(out, col) /\ out.data[col] = call.df.data[col]
                 /\ out.index = call.df.index
                 /\ \A col \in Range(call.columns) : \A r \in DOMAIN call.df.index :
                      LET total == SumSeq([m \in 1..Len(CategoryOrder) |->
                                      IF HasColumn(out, col \o "_" \o CategoryOrder[m])
                                      THEN out.data[col \o "_" \o CategoryOrder[m]][r] ELSE 0])
                      IN total = (IF call.df.data[col][r] = C6_First(col) THEN 0 ELSE 1)

=============================================================================
